---------------------------- MODULE Spec2Model ----------------------------
(***************************************************************************)
(* Model of the custom number-format path of src/src/writer.rs: one cell   *)
(* goes through get_cell_formatted_value, apply_format_with_sections,      *)
(* split_format_sections, select_format_section, needs_custom_handling and *)
(* the character scan of apply_section_format.                             *)
(*                                                                         *)
(* Strings are sequences of one-character strings.  Indices into a string  *)
(* are 0-based as in the source; At(s, k) reads s[k].                      *)
(*                                                                         *)
(* A parsed f64 is kept as its exact decimal expansion: a sign, an integer *)
(* part and the fractional digits.  The raw values of the model are chosen *)
(* so that this agrees with the f64: every value that is a rounding tie at *)
(* some decimal place is a dyadic rational (0.125, 2.5, ...), which an f64 *)
(* holds exactly.                                                          *)
(***************************************************************************)
EXTENDS Integers, Sequences, FiniteSets, TLC

(***************************************************************************)
(* Bounds                                                                  *)
(***************************************************************************)
\* Every format code over CoreAlphabet of at most this many characters is an
\* initial format code, next to the SampleCodes.
MaxLen == 4

(***************************************************************************)
(* Characters                                                              *)
(***************************************************************************)
BS == "\\"
DQ == "\""
SEMI == ";"
DOT == "."
COMMA == ","
LBRACE == "{"
RBRACE == "}"
SP == " "

DigitChars == <<"0", "1", "2", "3", "4", "5", "6", "7", "8", "9">>

\* char::is_whitespace on the characters of the model
IsWhitespace(c) == c = SP

\* s[k] for a 0-based index k, as chars[i] in the source
At(s, k) == s[k + 1]

\* &s[from..to] for 0-based from (inclusive) and to (exclusive)
Slice(s, from, to) == [k \in 1..(to - from) |-> s[from + k]]

\* str::contains(char)
Contains(s, c) == \E k \in 1..Len(s) : s[k] = c

\* str::contains(&str) for a two-character pattern
Contains2(s, a, b) == \E k \in 1..(Len(s) - 1) : s[k] = a /\ s[k + 1] = b

(***************************************************************************)
(* Numbers: raw_value.parse::<f64>()                                       *)
(***************************************************************************)
\* cls: "fin" (finite), "nan", "inf" (either sign, see neg), "none" (no f64).
\* A finite value is held exactly: id are the decimal digits of its integer
\* part, most significant first and without leading zeros, fd those of its
\* fraction (the raw values are numbers an f64 holds exactly, or whose
\* rounding by the conversions below does not depend on the difference).
NoNum == [cls |-> "none", neg |-> FALSE, id |-> <<0>>, fd |-> <<>>]

IsDigit(c) == \E d \in 1..10 : DigitChars[d] = c

DigitVal(c) == (CHOOSE d \in 1..10 : DigitChars[d] = c) - 1

AllDigits(s) == \A k \in 1..Len(s) : IsDigit(s[k])

RECURSIVE StripZeros(_)
\* a digit sequence without its leading zeros; <<0>> for zero
StripZeros(ds) ==
    IF Len(ds) <= 1 THEN (IF ds = <<>> THEN <<0>> ELSE ds)
    ELSE IF Head(ds) = 0 THEN StripZeros(Tail(ds)) ELSE ds

\* the digits a run of decimal digit characters stands for
DigitsOf(s) == StripZeros([k \in 1..Len(s) |-> DigitVal(s[k])])

\* The spellings of the non-finite values f64::from_str accepts (it compares
\* them without case; these are the spellings the model's raw values use).
NanNames == {<<"N", "a", "N">>, <<"n", "a", "n">>}
InfNames == {<<"i", "n", "f">>, <<"i", "n", "f", "i", "n", "i", "t", "y">>}

\* the position of the first c in s (1-based), or 0
FirstPos(s, c) ==
    IF Contains(s, c) THEN CHOOSE k \in 1..Len(s) :
                                /\ s[k] = c
                                /\ \A j \in 1..(k - 1) : s[j] # c
    ELSE 0

\* f64::from_str on a string without an exponent: an optional sign, then
\* nan / inf / infinity, or digits with at most one '.', at least one digit.
FromStr(raw) ==
    LET signed == raw # <<>> /\ Head(raw) \in {"-", "+"}
        neg == raw # <<>> /\ Head(raw) = "-"
        body == IF signed THEN Tail(raw) ELSE raw
        p == FirstPos(body, DOT)
        intChars == IF p = 0 THEN body ELSE SubSeq(body, 1, p - 1)
        fracChars == IF p = 0 THEN <<>> ELSE SubSeq(body, p + 1, Len(body))
    IN  IF body \in NanNames THEN [cls |-> "nan", neg |-> neg, id |-> <<0>>, fd |-> <<>>]
        ELSE IF body \in InfNames
        THEN [cls |-> "inf", neg |-> neg, id |-> <<0>>, fd |-> <<>>]
        ELSE IF /\ AllDigits(intChars)
                /\ AllDigits(fracChars)
                /\ Len(intChars) + Len(fracChars) > 0
        THEN [cls |-> "fin", neg |-> neg, id |-> DigitsOf(intChars),
              fd |-> [k \in 1..Len(fracChars) |-> DigitVal(fracChars[k])]]
        ELSE NoNum

\* raw_value.parse().ok(): NoNum stands for the None that `?` returns on
ParseF64(raw) == FromStr(raw)

\* the magnitude of a finite value is not zero
NonZero(v) == v.id # <<0>> \/ \E k \in 1..Len(v.fd) : v.fd[k] # 0

\* value > 0.0 (false for NaN)
GtZero(v) ==
    \/ v.cls = "inf" /\ ~v.neg
    \/ v.cls = "fin" /\ ~v.neg /\ NonZero(v)

\* value < 0.0 (false for NaN)
LtZero(v) ==
    \/ v.cls = "inf" /\ v.neg
    \/ v.cls = "fin" /\ v.neg /\ NonZero(v)

\* value >= 0.0 (false for NaN; true for -0.0)
GeZero(v) == v.cls \in {"inf", "fin"} /\ ~LtZero(v)

(***************************************************************************)
(* split_format_sections                                                   *)
(***************************************************************************)
\* a splitter that forgets the in_quotes flag
SplitIgnoringQuotes(format_code) ==
    LET RECURSIVE Go(_, _, _)
        Go(k, start, sections) ==
            IF k = Len(format_code)
            THEN Append(sections, Slice(format_code, start, Len(format_code)))
            ELSE IF At(format_code, k) = SEMI
                 THEN Go(k + 1, k + 1, Append(sections, Slice(format_code, start, k)))
                 ELSE Go(k + 1, start, sections)
    IN  Go(0, 0, <<>>)

SplitFormatSections(format_code) ==
    LET RECURSIVE Go(_, _, _, _)
        \* k: the index of the next character; the loop of lines 101-110
        Go(k, start, in_quotes, sections) ==
            IF k = Len(format_code)
            THEN Append(sections, Slice(format_code, start, Len(format_code)))
            ELSE LET c == At(format_code, k)
                 IN  IF c = DQ
                     THEN Go(k + 1, start, ~in_quotes, sections)
                     ELSE IF c = SEMI /\ ~in_quotes
                     THEN Go(k + 1, k + 1, in_quotes,
                             Append(sections, Slice(format_code, start, k)))
                     ELSE Go(k + 1, start, in_quotes, sections)
    IN  Go(0, 0, FALSE, <<>>)

(***************************************************************************)
(* select_format_section: the 0-based index of the section it returns      *)
(***************************************************************************)
\* a selector that tests value > 0.0 where the source tests value >= 0.0
SelectZeroAsNegative(sections, value) ==
    IF Len(sections) = 1 THEN 0
    ELSE IF Len(sections) = 2 THEN (IF GtZero(value) THEN 0 ELSE 1)
    ELSE IF Len(sections) \in {3, 4}
    THEN (IF GtZero(value) THEN 0 ELSE IF LtZero(value) THEN 1 ELSE 2)
    ELSE 0

SelectFormatSection(sections, value) ==
    IF Len(sections) = 1 THEN 0
    ELSE IF Len(sections) = 2 THEN (IF GeZero(value) THEN 0 ELSE 1)
    ELSE IF Len(sections) \in {3, 4}
    THEN (IF GtZero(value) THEN 0 ELSE IF LtZero(value) THEN 1 ELSE 2)
    ELSE 0

(***************************************************************************)
(* needs_custom_handling                                                   *)
(***************************************************************************)
\* a check that sends every section to apply_section_format
NeedsCustomAlways(section) == TRUE

NeedsCustomHandling(section) ==
    LET has_custom_literals ==
            Contains2(section, BS, LBRACE) \/ Contains2(section, BS, RBRACE)
        has_quoted_literal_only ==
            Contains(section, DQ) /\ ~Contains(section, "#") /\ ~Contains(section, "0")
        is_literal_section ==
            \/ has_quoted_literal_only
            \/ (has_custom_literals /\ ~Contains(section, "#")
                                    /\ ~Contains(section, "0"))
    IN  has_custom_literals \/ has_quoted_literal_only \/ is_literal_section

(***************************************************************************)
(* Number rendering: format!("{:.prec$}"), `as i64`, to_string             *)
(***************************************************************************)
DigitsToChars(ds) == [k \in 1..Len(ds) |-> DigitChars[ds[k] + 1]]

RECURSIVE Increment(_)
\* a decimal digit string plus one, carrying to the left
Increment(ds) ==
    IF ds = <<>> THEN <<1>>
    ELSE IF ds[Len(ds)] < 9
    THEN Append(SubSeq(ds, 1, Len(ds) - 1), ds[Len(ds)] + 1)
    ELSE Append(Increment(SubSeq(ds, 1, Len(ds) - 1)), 0)

\* the fractional digits of v, with zeros added up to k digits
PadFrac(v, k) ==
    [j \in 1..(IF Len(v.fd) > k THEN Len(v.fd) ELSE k) |->
        IF j <= Len(v.fd) THEN v.fd[j] ELSE 0]

\* The digits cut off after k places are more than half a unit of the last
\* kept place, or exactly half and the last kept digit is odd: the rule of
\* core::fmt for an f64 with a precision (ties to even on the exact value).
RoundsUp(v, k) ==
    LET rest == SubSeq(PadFrac(v, k), k + 1, Len(PadFrac(v, k)))
        last == IF k > 0 THEN PadFrac(v, k)[k] ELSE v.id[Len(v.id)]
    IN  /\ rest # <<>>
        /\ \/ rest[1] > 5
           \/ /\ rest[1] = 5
              /\ \/ \E j \in 2..Len(rest) : rest[j] # 0
                 \/ last % 2 = 1

\* the magnitude of the finite v with k decimals, rounded up when `up`
FixedChars(v, k, up) ==
    LET all == v.id \o SubSeq(PadFrac(v, k), 1, k)
        ds == IF up THEN Increment(all) ELSE all
        int == SubSeq(ds, 1, Len(ds) - k)
        frac == SubSeq(ds, Len(ds) - k + 1, Len(ds))
    IN  IF k = 0 THEN DigitsToChars(int)
        ELSE DigitsToChars(int) \o <<DOT>> \o DigitsToChars(frac)

NanChars == <<"N", "a", "N">>
InfChars == <<"i", "n", "f">>
\* i64::MAX, what `f64::INFINITY as i64` saturates to
I64MaxChars == <<"9", "2", "2", "3", "3", "7", "2", "0", "3", "6", "8", "5",
                 "4", "7", "7", "5", "8", "0", "7">>

\* a digit sequence without leading zeros is more than i64::MAX
ExceedsI64(ds) ==
    LET m == DigitsOf(I64MaxChars)
    IN  \/ Len(ds) > Len(m)
        \/ /\ Len(ds) = Len(m)
           /\ \E k \in 1..Len(m) :
                  /\ ds[k] > m[k]
                  /\ \A j \in 1..(k - 1) : ds[j] = m[j]

\* format!("{:.prec$}", num.abs(), prec = k)
FormatFixed(v, k) ==
    IF v.cls = "nan" THEN NanChars
    ELSE IF v.cls = "inf" THEN InfChars
    ELSE FixedChars(v, k, RoundsUp(v, k))

\* (num.abs() as i64).to_string(): the cast truncates toward zero, maps NaN
\* to 0 and saturates
AbsAsI64Chars(v) ==
    IF v.cls = "nan" THEN <<"0">>
    ELSE IF v.cls = "inf" THEN I64MaxChars
    ELSE IF ExceedsI64(v.id) THEN I64MaxChars
    ELSE DigitsToChars(v.id)

\* format_int_with_thousands, given s = num.to_string(): a ',' before every
\* character whose distance from the end is a positive multiple of 3
FormatIntWithThousands(s) ==
    LET RECURSIVE Go(_, _)
        \* k: the index in the reversed string; acc: the result so far, in
        \* reading order (the source builds it reversed and reverses it)
        Go(k, acc) ==
            IF k = Len(s) THEN acc
            ELSE Go(k + 1,
                    <<s[Len(s) - k]>>
                        \o (IF k > 0 /\ k % 3 = 0 THEN <<COMMA>> ELSE <<>>)
                        \o acc)
    IN  Go(0, <<>>)

\* str::parse::<i64>().unwrap_or(0) on the integer part of a formatted
\* number, then to_string: a digit run over i64::MAX does not parse
ParseI64OrZeroChars(s) ==
    IF s # <<>> /\ AllDigits(s) /\ ~ExceedsI64(DigitsOf(s))
    THEN DigitsToChars(DigitsOf(s))
    ELSE <<"0">>

\* format_with_thousands
FormatWithThousands(v, decimal_places) ==
    LET formatted == FormatFixed(v, decimal_places)
        p == FirstPos(formatted, DOT)
        int_part == IF p = 0 THEN formatted ELSE SubSeq(formatted, 1, p - 1)
        int_with_commas == FormatIntWithThousands(ParseI64OrZeroChars(int_part))
    IN  IF p = 0 THEN int_with_commas
        ELSE int_with_commas \o <<DOT>> \o SubSeq(formatted, p + 1, Len(formatted))

\* number_format.split('.').nth(1), with the '0' and '#' in it counted
DecimalPlaces(number_format) ==
    LET p == FirstPos(number_format, DOT)
        after == SubSeq(number_format, p + 1, Len(number_format))
        q == FirstPos(after, DOT)
        part == IF q = 0 THEN after ELSE SubSeq(after, 1, q - 1)
    IN  Cardinality({k \in 1..Len(part) : part[k] \in {"0", "#"}})

\* lines 248-269: the digit string of num for the collected number_format
FormatNumber(num, number_format) ==
    LET use_thousands == Contains(number_format, COMMA)
    IN  IF Contains(number_format, DOT)
        THEN IF use_thousands
             THEN FormatWithThousands(num, DecimalPlaces(number_format))
             ELSE FormatFixed(num, DecimalPlaces(number_format))
        ELSE IF use_thousands
             THEN FormatIntWithThousands(AbsAsI64Chars(num))
             ELSE AbsAsI64Chars(num)

(***************************************************************************)
(* apply_section_format: the scan of lines 168-236, one iteration a step.  *)
(* A scan state st holds the locals i, prefix, suffix, number_format,      *)
(* in_number_section and has_number_placeholder; chars is the section.     *)
(***************************************************************************)
ScanInit ==
    [i |-> 0, prefix |-> <<>>, suffix |-> <<>>, number_format |-> <<>>,
     in_number_section |-> FALSE, has_number_placeholder |-> FALSE]

\* lines 174-178 and 187-191: where a literal goes
PushLiteral(st, lit) ==
    IF st.in_number_section \/ st.has_number_placeholder
    THEN [st EXCEPT !.suffix = st.suffix \o lit]
    ELSE [st EXCEPT !.prefix = st.prefix \o lit]

\* the index of the first c at or after index from, or Len(chars)
FindFrom(chars, from, c) ==
    IF \E k \in from..(Len(chars) - 1) : At(chars, k) = c
    THEN CHOOSE k \in from..(Len(chars) - 1) :
            /\ At(chars, k) = c
            /\ \A j \in from..(k - 1) : At(chars, j) # c
    ELSE Len(chars)

\* an escape that sends its literal to the prefix wherever it stands
EscapeAlwaysPrefix(st, chars) ==
    [st EXCEPT !.prefix = st.prefix \o <<At(chars, st.i + 1)>>, !.i = st.i + 2]

\* lines 171-181: c == '\\' && i + 1 < chars.len()
EscapeStep(st, chars) ==
    [PushLiteral(st, <<At(chars, st.i + 1)>>) EXCEPT !.i = st.i + 2]

\* lines 183-196: c == '"'
QuoteStep(st, chars) ==
    LET close == FindFrom(chars, st.i + 1, DQ)
    IN  [PushLiteral(st, Slice(chars, st.i + 1, close)) EXCEPT !.i = close + 1]

\* lines 198-201: c == '#' || c == '0'
PlaceholderStep(st, chars) ==
    [st EXCEPT !.in_number_section = TRUE,
               !.has_number_placeholder = TRUE,
               !.number_format = Append(st.number_format, At(chars, st.i)),
               !.i = st.i + 1]

\* lines 202-205: c == '.' || c == ','
SeparatorStep(st, chars) ==
    [st EXCEPT !.number_format =
                   IF st.in_number_section
                   THEN Append(st.number_format, At(chars, st.i))
                   ELSE st.number_format,
               !.i = st.i + 1]

\* lines 206-212: c == '?'
QuestionStep(st, chars) == [st EXCEPT !.i = st.i + 1]

\* a skip that leaves the index where it is
SkipStepStuck(st, chars) == st

\* lines 213-216: c == '_' || c == '*'
SkipStep(st, chars) == [st EXCEPT !.i = st.i + 2]

\* lines 217-221 and 235: c == '['
BracketStep(st, chars) == [st EXCEPT !.i = FindFrom(chars, st.i, "]") + 1]

\* lines 222-226: any other character before the first placeholder
PrefixCharStep(st, chars) ==
    LET c == At(chars, st.i)
    IN  [st EXCEPT !.prefix = IF ~IsWhitespace(c) /\ c # "(" /\ c # ")"
                              THEN Append(st.prefix, c) ELSE st.prefix,
                   !.i = st.i + 1]

\* lines 227-233: any other character after the first placeholder
SuffixCharStep(st, chars) ==
    LET c == At(chars, st.i)
    IN  IF ~IsWhitespace(c)
        THEN [st EXCEPT !.suffix = Append(st.suffix, c),
                        !.in_number_section = FALSE,
                        !.i = st.i + 1]
        ELSE [st EXCEPT !.i = st.i + 1]

\* which branch of the loop body an iteration at index i takes
Branch(st, chars) ==
    LET c == At(chars, st.i)
    IN  IF c = BS /\ st.i + 1 < Len(chars) THEN "escape"
        ELSE IF c = DQ THEN "quote"
        ELSE IF c = "#" \/ c = "0" THEN "placeholder"
        ELSE IF c = DOT \/ c = COMMA THEN "separator"
        ELSE IF c = "?" THEN "question"
        ELSE IF c = "_" \/ c = "*" THEN "skip"
        ELSE IF c = "[" THEN "bracket"
        ELSE IF ~st.in_number_section /\ ~st.has_number_placeholder THEN "prefixchar"
        ELSE "suffixchar"

\* The indices of chars that the iteration starting in st reads: chars[i],
\* then chars[i + 1] behind the test i + 1 < chars.len() of line 171, or the
\* chars[i] of the inner loops of lines 186 and 219 behind their test
\* i < chars.len(), up to the character that ends the loop.
ReadIndices(st, chars) ==
    LET c == At(chars, st.i)
        len == Len(chars)
    IN  {st.i} \cup
        (IF c = BS /\ st.i + 1 < len THEN {st.i + 1}
         ELSE IF c = DQ
         THEN {j \in (st.i + 1)..FindFrom(chars, st.i + 1, DQ) : j < len}
         ELSE IF c = "["
         THEN {j \in st.i..FindFrom(chars, st.i, "]") : j < len}
         ELSE {})

\* Option<String>
None == [tag |-> "None", s |-> <<>>]
Some(s) == [tag |-> "Some", s |-> s]
Pending == [tag |-> "Pending", s |-> <<>>]

\* lines 238-275: what apply_section_format returns once the scan is over
Render(num, st) ==
    IF ~st.has_number_placeholder
    THEN IF st.prefix \o st.suffix # <<>> THEN Some(st.prefix \o st.suffix) ELSE None
    ELSE Some(st.prefix \o FormatNumber(num, st.number_format) \o st.suffix)

(***************************************************************************)
(* The cells the model formats                                             *)
(***************************************************************************)
\* 0.00;(0.00);"-"
ThreeSectionCode == <<"0", ".", "0", "0", ";", "(", "0", ".", "0", "0", ")", ";", "\"", "-", "\"">>
\* 0;0;0;"N/A"
FourSectionCode == <<"0", ";", "0", ";", "0", ";", "\"", "N", "/", "A", "\"">>
\* "a";;;;
FiveSectionCode == <<"\"", "a", "\"", ";", ";", ";", ";">>
\* \{###\}
BraceCode == <<"\\", "{", "#", "#", "#", "\\", "}">>
\* \{0.00\}
BraceDecimalCode == <<"\\", "{", "0", ".", "0", "0", "\\", "}">>
\* \{#,##0\}
BraceGroupedCode == <<"\\", "{", "#", ",", "#", "#", "0", "\\", "}">>
\* \{##0\}
BraceUngroupedCode == <<"\\", "{", "#", "#", "0", "\\", "}">>
\* 0\},
CommaAfterEscapeCode == <<"0", "\\", "}", ",">>
\* "unterminated
UnterminatedCode == <<"\"", "u", "n", "t", "e", "r", "m", "i", "n", "a", "t", "e", "d">>
\* General
GeneralCode == <<"G", "e", "n", "e", "r", "a", "l">>
\* 0.00
PlainDecimalCode == <<"0", ".", "0", "0">>
\* #,##0
PlainGroupedCode == <<"#", ",", "#", "#", "0">>
\* ##0
PlainUngroupedCode == <<"#", "#", "0">>
\* [$-409]\{0\}
LocaleCode == <<"[", "$", "-", "4", "0", "9", "]", "\\", "{", "0", "\\", "}">>
\* _(\{0\}*x
FillCode == <<"_", "(", "\\", "{", "0", "\\", "}", "*", "x">>
\* \{?0\}
QuestionCode == <<"\\", "{", "?", "0", "\\", "}">>
\* ( \{0\} )
ParenCode == <<"(", " ", "\\", "{", "0", "\\", "}", " ", ")">>
\* x\{0y,0\}
LettersCode == <<"x", "\\", "{", "0", "y", ",", "0", "\\", "}">>
\* \{0\}\
TrailingEscapeCode == <<"\\", "{", "0", "\\", "}", "\\">>
\* \{0\}[Red
OpenBracketCode == <<"\\", "{", "0", "\\", "}", "[", "R", "e", "d">>
\* \{#,##0.0\}
BraceGroupedDecimalCode == <<"\\", "{", "#", ",", "#", "#", "0", ".", "0", "\\", "}">>
\* \{000\}
PaddedCode == <<"\\", "{", "0", "0", "0", "\\", "}">>
\* \{#.##\}
HashDecimalCode == <<"\\", "{", "#", ".", "#", "#", "\\", "}">>
\* "a" "b"
QuotedWordsCode == <<"\"", "a", "\"", " ", "\"", "b", "\"">>

SampleCodes ==
    {ThreeSectionCode, FourSectionCode, FiveSectionCode,
     BraceCode, BraceDecimalCode, BraceGroupedCode,
     BraceUngroupedCode, CommaAfterEscapeCode, UnterminatedCode,
     GeneralCode, PlainDecimalCode, PlainGroupedCode,
     PlainUngroupedCode, LocaleCode, FillCode,
     QuestionCode, ParenCode, LettersCode,
     TrailingEscapeCode, OpenBracketCode, BraceGroupedDecimalCode,
     PaddedCode, HashDecimalCode, QuotedWordsCode}

CoreAlphabet == {"0", COMMA, DOT, SEMI, DQ, BS, RBRACE}

\* every string over CoreAlphabet of at most MaxLen characters
ShortCodes == UNION {[1..n -> CoreAlphabet] : n \in 0..MaxLen}

FormatCodes == SampleCodes \cup ShortCodes

\* cell.get_value(): the raw strings of the cells; "" is an empty cell
RawValues ==
    {<<"5">>,
     <<"-", "5">>,
     <<"0">>,
     <<"1", "2", "3">>,
     <<"1", "2", "3", "4", "5", "6", "7">>,
     <<"1", "0", "0", "0", "0", "0", "0", "0", "0", "0",
       "0", "0", "0", "0", "0", "0", "0", "0", "0", "0">>,
     <<"0", ".", "1", "2", "5">>,
     <<"2", ".", "5">>,
     <<"2", ".", "7">>,
     <<"3", ".", "1", "4", "1", "5", "9">>,
     <<"a", "b", "c">>,
     <<"N", "a", "N">>,
     <<"i", "n", "f">>,
     <<>>}

(***************************************************************************)
(* evaluator.rs: parse_a1_notation                                         *)
(***************************************************************************)
\* the longest column (run of letters) of the cell references of the model
MaxLetters == 7

UpperLetters ==
    <<"A", "B", "C", "D", "E", "F", "G", "H", "I", "J", "K", "L", "M",
      "N", "O", "P", "Q", "R", "S", "T", "U", "V", "W", "X", "Y", "Z">>
LowerLetters ==
    <<"a", "b", "c", "d", "e", "f", "g", "h", "i", "j", "k", "l", "m",
      "n", "o", "p", "q", "r", "s", "t", "u", "v", "w", "x", "y", "z">>

IsUpper(c) == \E k \in 1..Len(UpperLetters) : UpperLetters[k] = c
IsLower(c) == \E k \in 1..Len(LowerLetters) : LowerLetters[k] = c

\* str::to_uppercase and the lower-casing of eq_ignore_ascii_case, on ASCII
ToUppercase(s) ==
    [k \in 1..Len(s) |->
        IF IsLower(s[k])
        THEN UpperLetters[CHOOSE j \in 1..Len(LowerLetters) : LowerLetters[j] = s[k]]
        ELSE s[k]]
ToLowercase(s) ==
    [k \in 1..Len(s) |->
        IF IsUpper(s[k])
        THEN LowerLetters[CHOOSE j \in 1..Len(UpperLetters) : UpperLetters[j] = s[k]]
        ELSE s[k]]

RECURSIVE Trim(_)
\* str::trim
Trim(s) ==
    IF s = <<>> THEN s
    ELSE IF IsWhitespace(Head(s)) THEN Trim(Tail(s))
    ELSE IF IsWhitespace(s[Len(s)]) THEN Trim(SubSeq(s, 1, Len(s) - 1))
    ELSE s

\* A u32 is held as two 16-bit halves, value = hi * Half + lo; a result that
\* has not been cut to 32 bits yet may have hi >= Half.
Half == 65536
U32(n) == [hi |-> n \div Half, lo |-> n % Half]

\* x * m + d, not cut to 32 bits
MulAdd(x, m, d) ==
    LET lo == x.lo * m + d
    IN  [hi |-> x.hi * m + lo \div Half, lo |-> lo % Half]

FitsU32(x) == x.hi < Half

\* what wrapping arithmetic keeps of x
WrapU32(x) == [hi |-> x.hi % Half, lo |-> x.lo]

\* c as u32 - 'A' as u32 + 1, for an upper-case letter c
LetterValue(c) == CHOOSE k \in 1..Len(UpperLetters) : UpperLetters[k] = c

\* cell.chars().position(|c| c.is_ascii_digit()): 0-based, -1 for None
DigitPosition(cell) ==
    IF \E k \in 1..Len(cell) : IsDigit(cell[k])
    THEN (CHOOSE k \in 1..Len(cell) :
              /\ IsDigit(cell[k])
              /\ \A j \in 1..(k - 1) : ~IsDigit(cell[j])) - 1
    ELSE -1

\* row_str.parse::<u32>(): an optional '+', then digits whose value fits
\* 32 bits; ok is FALSE for the Err
ParseU32(row_str) ==
    LET body == IF row_str # <<>> /\ Head(row_str) = "+" THEN Tail(row_str)
                ELSE row_str
        RECURSIVE Go(_, _)
        Go(k, acc) ==
            IF k > Len(body) THEN [ok |-> TRUE, v |-> acc]
            ELSE LET next == MulAdd(acc, 10, DigitVal(body[k]))
                 IN  IF FitsU32(next) THEN Go(k + 1, next)
                     ELSE [ok |-> FALSE, v |-> U32(0)]
    IN  IF body # <<>> /\ AllDigits(body) THEN Go(1, U32(0))
        ELSE [ok |-> FALSE, v |-> U32(0)]

\* Result<(u32, u32)>, and the panic of an overflow check
OkCoord(c, r) == [tag |-> "Ok", col |-> c, row |-> r, details |-> ""]
ErrInvalid(details) ==
    [tag |-> "Err", col |-> U32(0), row |-> U32(0), details |-> details]
Panicked == [tag |-> "Panic", col |-> U32(0), row |-> U32(0), details |-> ""]
NoResult == [tag |-> "Pending", col |-> U32(0), row |-> U32(0), details |-> ""]

(***************************************************************************)
(* evaluator.rs: parse_value                                               *)
(***************************************************************************)
\* LiteralValue
LiteralBoolean(b) == [kind |-> "Boolean", v |-> b]
LiteralInt(neg, id) == [kind |-> "Int", v |-> [neg |-> neg, id |-> id]]
LiteralNumber(n) == [kind |-> "Number", v |-> n]
LiteralDate(y, m, d) == [kind |-> "Date", v |-> <<y, m, d>>]
LiteralText(s) == [kind |-> "Text", v |-> s]
NoLiteral == [kind |-> "Pending", v |-> <<>>]

TrueChars == <<"t", "r", "u", "e">>
FalseChars == <<"f", "a", "l", "s", "e">>

\* value.parse::<i64>(): an optional sign, then digits whose value is in
\* -2^63 .. 2^63 - 1; id are the digits of the magnitude
ParseI64(value) ==
    LET signed == value # <<>> /\ Head(value) \in {"-", "+"}
        body == IF signed THEN Tail(value) ELSE value
        minus == value # <<>> /\ Head(value) = "-"
        well_formed == body # <<>> /\ AllDigits(body)
        id == IF well_formed THEN DigitsOf(body) ELSE <<0>>
        in_range ==
            \/ ~ExceedsI64(id)
            \/ minus /\ id = Increment(DigitsOf(I64MaxChars))
    IN  [ok |-> well_formed /\ in_range, neg |-> minus /\ id # <<0>>, id |-> id]

RECURSIVE SmallNat(_)
\* the value of a short run of digits
SmallNat(s) ==
    IF s = <<>> THEN 0
    ELSE SmallNat(SubSeq(s, 1, Len(s) - 1)) * 10 + DigitVal(s[Len(s)])

DaysInMonth(y, m) ==
    IF m = 2
    THEN (IF y % 4 = 0 /\ (y % 100 # 0 \/ y % 400 = 0) THEN 29 ELSE 28)
    ELSE IF m \in {4, 6, 9, 11} THEN 30 ELSE 31

\* NaiveDate::parse_from_str(value, "%Y-%m-%d") on a string of digits and
\* '-' without a sign: a year of 1 to 4 digits, a month and a day of 1 or 2
\* digits each, that name a day of the calendar
ParseDate(value) ==
    LET p == FirstPos(value, "-")
        year == SubSeq(value, 1, p - 1)
        rest == SubSeq(value, p + 1, Len(value))
        q == FirstPos(rest, "-")
        month == SubSeq(rest, 1, q - 1)
        day == SubSeq(rest, q + 1, Len(rest))
        shaped ==
            /\ p > 0 /\ q > 0
            /\ Len(year) \in 1..4 /\ AllDigits(year)
            /\ Len(month) \in 1..2 /\ AllDigits(month)
            /\ Len(day) \in 1..2 /\ AllDigits(day)
        y == SmallNat(year)
        m == SmallNat(month)
        d == SmallNat(day)
    IN  IF shaped /\ m \in 1..12 /\ d \in 1..DaysInMonth(y, m)
        THEN [ok |-> TRUE, y |-> y, m |-> m, d |-> d]
        ELSE [ok |-> FALSE, y |-> 0, m |-> 0, d |-> 0]

\* a parse_value that tries the float before the integer
ParseValueFloatFirst(value) ==
    IF ToLowercase(value) = TrueChars THEN LiteralBoolean(TRUE)
    ELSE IF ToLowercase(value) = FalseChars THEN LiteralBoolean(FALSE)
    ELSE IF FromStr(value).cls # "none" THEN LiteralNumber(FromStr(value))
    ELSE IF ParseI64(value).ok
    THEN LiteralInt(ParseI64(value).neg, ParseI64(value).id)
    ELSE IF ParseDate(value).ok
    THEN LiteralDate(ParseDate(value).y, ParseDate(value).m, ParseDate(value).d)
    ELSE LiteralText(value)

ParseValue(value) ==
    IF ToLowercase(value) = TrueChars THEN LiteralBoolean(TRUE)
    ELSE IF ToLowercase(value) = FalseChars THEN LiteralBoolean(FALSE)
    ELSE IF ParseI64(value).ok
    THEN LiteralInt(ParseI64(value).neg, ParseI64(value).id)
    ELSE IF FromStr(value).cls # "none" THEN LiteralNumber(FromStr(value))
    ELSE IF ParseDate(value).ok
    THEN LiteralDate(ParseDate(value).y, ParseDate(value).m, ParseDate(value).d)
    ELSE LiteralText(value)

(***************************************************************************)
(* State                                                                   *)
(***************************************************************************)
VARIABLES
    has_cell,                \* sheet.get_cell((col, row)) is Some
    raw_value,               \* cell.get_value()
    format_code,             \* the cell's format code ("General" by default)
    pc,                      \* where the call for this cell stands
    num,                     \* apply_format_with_sections: num
    sections,                \* apply_format_with_sections: sections
    section_index,           \* the index select_format_section picked, or -1
    section,                 \* apply_format_with_sections: section
    i,                       \* apply_section_format: i
    prefix,                  \* apply_section_format: prefix
    suffix,                  \* apply_section_format: suffix
    number_format,           \* apply_section_format: number_format
    in_number_section,       \* apply_section_format: in_number_section
    has_number_placeholder,  \* apply_section_format: has_number_placeholder
    formatted,               \* what apply_format_with_sections returned
    value,                   \* what get_cell_formatted_value returned
    field,                   \* what write_sheet pushed on the record
    cell_arg,                \* parse_a1_notation: the argument cell
    a1_pc,                   \* where the call of parse_a1_notation stands
    cell,                    \* parse_a1_notation: cell, trimmed and upper-cased
    col_end,                 \* parse_a1_notation: col_end, or -1
    col_k,                   \* the characters of col_str the fold has taken
    col,                     \* parse_a1_notation: the fold's acc, then col
    a1_result,               \* what parse_a1_notation returned
    pv_value,                \* parse_value: the argument value
    pv_pc,                   \* where the call of parse_value stands
    literal                  \* apply_override: literal, what parse_value returned

scanvars == <<i, prefix, suffix, number_format, in_number_section,
              has_number_placeholder>>

writervars ==
    <<has_cell, raw_value, format_code, pc, num, sections, section_index,
      section, i, prefix, suffix, number_format, in_number_section,
      has_number_placeholder, formatted, value, field>>

a1vars == <<cell_arg, a1_pc, cell, col_end, col_k, col, a1_result>>

pvvars == <<pv_value, pv_pc, literal>>

vars == <<writervars, a1vars, pvvars>>

\* the strings get_cell_formatted_value returns: one this file built, or the
\* one sheet.get_formatted_value (umya-spreadsheet) built
Str(s) == [kind |-> "string", s |-> s]
Library == [kind |-> "library", s |-> <<>>]
EmptyValue == [kind |-> "empty_value", s |-> <<>>]
NotYet == [kind |-> "pending", s |-> <<>>]

ScanState ==
    [i |-> i, prefix |-> prefix, suffix |-> suffix,
     number_format |-> number_format,
     in_number_section |-> in_number_section,
     has_number_placeholder |-> has_number_placeholder]

SetScan(st) ==
    /\ i' = st.i
    /\ prefix' = st.prefix
    /\ suffix' = st.suffix
    /\ number_format' = st.number_format
    /\ in_number_section' = st.in_number_section
    /\ has_number_placeholder' = st.has_number_placeholder

\* no call of parse_a1_notation is under way
A1Idle ==
    /\ cell_arg = <<>>
    /\ a1_pc = "idle"
    /\ cell = <<>>
    /\ col_end = -1
    /\ col_k = 0
    /\ col = U32(0)
    /\ a1_result = NoResult

\* no call of parse_value is under way
PvIdle ==
    /\ pv_value = <<>>
    /\ pv_pc = "idle"
    /\ literal = NoLiteral

\* the locals of the writer before a cell is formatted
WriterLocalsInit ==
    /\ num = NoNum
    /\ sections = <<>>
    /\ section_index = -1
    /\ section = <<>>
    /\ i = ScanInit.i
    /\ prefix = ScanInit.prefix
    /\ suffix = ScanInit.suffix
    /\ number_format = ScanInit.number_format
    /\ in_number_section = ScanInit.in_number_section
    /\ has_number_placeholder = ScanInit.has_number_placeholder
    /\ formatted = Pending
    /\ value = NotYet
    /\ field = NotYet

\* no cell is being written
WriterIdle ==
    /\ has_cell = FALSE
    /\ raw_value = <<>>
    /\ format_code = GeneralCode
    /\ pc = "idle"
    /\ WriterLocalsInit

Init ==
    /\ \/ has_cell = FALSE /\ raw_value = <<>> /\ format_code = GeneralCode
       \/ has_cell = TRUE /\ raw_value \in RawValues /\ format_code \in FormatCodes
    /\ pc = "get_cell"
    /\ WriterLocalsInit
    /\ A1Idle
    /\ PvIdle

(***************************************************************************)
(* Actions                                                                 *)
(***************************************************************************)
\* get_cell_formatted_value, lines 45-52
GetCell ==
    /\ pc = "get_cell"
    /\ IF ~has_cell \/ raw_value = <<>>
       THEN value' = Str(<<>>) /\ pc' = "push"
       ELSE value' = value /\ pc' = "parse"
    /\ UNCHANGED <<a1vars, pvvars>>
    /\ UNCHANGED <<has_cell, raw_value, format_code, num, sections,
                   section_index, section, scanvars, formatted, field>>

\* apply_format_with_sections, line 78
ParseNumber ==
    /\ pc = "parse"
    /\ num' = ParseF64(raw_value)
    /\ IF ParseF64(raw_value) = NoNum
       THEN formatted' = None /\ pc' = "return"
       ELSE formatted' = formatted /\ pc' = "split"
    /\ UNCHANGED <<a1vars, pvvars>>
    /\ UNCHANGED <<has_cell, raw_value, format_code, sections, section_index,
                   section, scanvars, value, field>>

\* apply_format_with_sections, line 81
Split ==
    /\ pc = "split"
    /\ sections' = SplitFormatSections(format_code)
    /\ pc' = "select"
    /\ UNCHANGED <<a1vars, pvvars>>
    /\ UNCHANGED <<has_cell, raw_value, format_code, num, section_index,
                   section, scanvars, formatted, value, field>>

\* apply_format_with_sections, line 84
Select ==
    /\ pc = "select"
    /\ section_index' = SelectFormatSection(sections, num)
    /\ section' = At(sections, SelectFormatSection(sections, num))
    /\ pc' = "check"
    /\ UNCHANGED <<a1vars, pvvars>>
    /\ UNCHANGED <<has_cell, raw_value, format_code, num, sections, scanvars,
                   formatted, value, field>>

\* apply_format_with_sections, lines 87-92
CheckCustom ==
    /\ pc = "check"
    /\ IF NeedsCustomHandling(section)
       THEN formatted' = formatted /\ pc' = "scan"
       ELSE formatted' = None /\ pc' = "return"
    /\ UNCHANGED <<a1vars, pvvars>>
    /\ UNCHANGED <<has_cell, raw_value, format_code, num, sections,
                   section_index, section, scanvars, value, field>>

\* one iteration of the loop of apply_section_format that takes branch b
Iteration(b, st) ==
    /\ pc = "scan"
    /\ i < Len(section)
    /\ Branch(ScanState, section) = b
    /\ SetScan(st)
    /\ UNCHANGED <<a1vars, pvvars>>
    /\ UNCHANGED <<has_cell, raw_value, format_code, pc, num, sections,
                   section_index, section, formatted, value, field>>

ScanEscape == Iteration("escape", EscapeStep(ScanState, section))

ScanQuote == Iteration("quote", QuoteStep(ScanState, section))

ScanPlaceholder == Iteration("placeholder", PlaceholderStep(ScanState, section))

ScanSeparator == Iteration("separator", SeparatorStep(ScanState, section))

ScanQuestion == Iteration("question", QuestionStep(ScanState, section))

ScanSkip == Iteration("skip", SkipStep(ScanState, section))

ScanBracket == Iteration("bracket", BracketStep(ScanState, section))

ScanPrefixChar == Iteration("prefixchar", PrefixCharStep(ScanState, section))

ScanSuffixChar == Iteration("suffixchar", SuffixCharStep(ScanState, section))

\* apply_section_format, lines 238-275: the loop is over
Finish ==
    /\ pc = "scan"
    /\ i >= Len(section)
    /\ formatted' = Render(num, ScanState)
    /\ pc' = "return"
    /\ UNCHANGED <<a1vars, pvvars>>
    /\ UNCHANGED <<has_cell, raw_value, format_code, num, sections,
                   section_index, section, scanvars, value, field>>

\* get_cell_formatted_value, lines 62-67
Return ==
    /\ pc = "return"
    /\ value' = IF formatted.tag = "Some" THEN Str(formatted.s) ELSE Library
    /\ pc' = "push"
    /\ UNCHANGED <<a1vars, pvvars>>
    /\ UNCHANGED <<has_cell, raw_value, format_code, num, sections,
                   section_index, section, scanvars, formatted, field>>

\* write_sheet, lines 27-32
Push ==
    /\ pc = "push"
    /\ field' = IF value = Str(<<>>) THEN EmptyValue ELSE value
    /\ pc' = "done"
    /\ UNCHANGED <<a1vars, pvvars>>
    /\ UNCHANGED <<has_cell, raw_value, format_code, num, sections,
                   section_index, section, scanvars, formatted, value>>

Next ==
    \/ GetCell
    \/ ParseNumber
    \/ Split
    \/ Select
    \/ CheckCustom
    \/ ScanEscape
    \/ ScanQuote
    \/ ScanPlaceholder
    \/ ScanSeparator
    \/ ScanQuestion
    \/ ScanSkip
    \/ ScanBracket
    \/ ScanPrefixChar
    \/ ScanSuffixChar
    \/ Finish
    \/ Return
    \/ Push

Spec == Init /\ [][Next]_vars

(***************************************************************************)
(* parse_a1_notation, a step for the trim and the search of the first      *)
(* digit, one for every letter the fold takes, one for the row             *)
(***************************************************************************)
ColumnLetters == {"A", "Z"}

\* every run of 1 to MaxLetters column letters
Columns == UNION {[1..n -> ColumnLetters] : n \in 1..MaxLetters}

RowStrings == {<<"1">>, <<"1", "0">>, <<>>}

SampleCells ==
    {<<"B", "2">>,
     <<"A", "B", "1", "0">>,
     <<"a", "b", "1", "0">>,
     <<" ", "A", "1", " ">>,
     <<"X", "F", "D", "1", "0", "4", "8", "5", "7", "6">>,
     <<"A", "4", "2", "9", "4", "9", "6", "7", "2", "9", "5">>,
     <<"A", "4", "2", "9", "4", "9", "6", "7", "2", "9", "6">>,
     <<"A", "1", "B">>,
     <<"1">>,
     <<>>}

\* the cell references handed to parse_a1_notation: letters, digits, blanks
A1Cells == {c \o r : c \in Columns, r \in RowStrings} \cup SampleCells

InitA1 ==
    /\ WriterIdle
    /\ PvIdle
    /\ cell_arg \in A1Cells
    /\ a1_pc = "start"
    /\ cell = <<>>
    /\ col_end = -1
    /\ col_k = 0
    /\ col = U32(0)
    /\ a1_result = NoResult

\* lines 217-226
A1Start ==
    /\ a1_pc = "start"
    /\ cell' = ToUppercase(Trim(cell_arg))
    /\ col_end' = DigitPosition(cell')
    /\ IF col_end' = -1
       THEN /\ a1_result' = ErrInvalid("invalid cell reference")
            /\ a1_pc' = "done"
       ELSE /\ a1_result' = a1_result
            /\ a1_pc' = "fold"
    /\ UNCHANGED <<cell_arg, col_k, col>>
    /\ UNCHANGED <<writervars, pvvars>>

\* what the fold of lines 231-234 computes for the next letter of col_str
FoldNext == MulAdd(col, 26, LetterValue(At(cell, col_k)))

\* lines 231-234: a letter whose acc * 26 + value fits the u32
A1Fold ==
    /\ a1_pc = "fold"
    /\ col_k < col_end
    /\ FitsU32(FoldNext)
    /\ col' = FoldNext
    /\ col_k' = col_k + 1
    /\ UNCHANGED <<cell_arg, a1_pc, cell, col_end, a1_result>>
    /\ UNCHANGED <<writervars, pvvars>>

\* lines 231-234: the u32 overflows and the build checks overflow
A1FoldPanic ==
    /\ a1_pc = "fold"
    /\ col_k < col_end
    /\ ~FitsU32(FoldNext)
    /\ a1_result' = Panicked
    /\ a1_pc' = "done"
    /\ UNCHANGED <<cell_arg, cell, col_end, col_k, col>>
    /\ UNCHANGED <<writervars, pvvars>>

\* lines 231-234: the u32 overflows and the build does not check overflow
A1FoldWrap ==
    /\ a1_pc = "fold"
    /\ col_k < col_end
    /\ ~FitsU32(FoldNext)
    /\ col' = WrapU32(FoldNext)
    /\ col_k' = col_k + 1
    /\ UNCHANGED <<cell_arg, a1_pc, cell, col_end, a1_result>>
    /\ UNCHANGED <<writervars, pvvars>>

\* lines 236-241
A1Row ==
    /\ a1_pc = "fold"
    /\ col_k = col_end
    /\ LET row == ParseU32(Slice(cell, col_end, Len(cell)))
       IN  a1_result' = IF row.ok THEN OkCoord(col, row.v)
                        ELSE ErrInvalid("invalid row")
    /\ a1_pc' = "done"
    /\ UNCHANGED <<cell_arg, cell, col_end, col_k, col>>
    /\ UNCHANGED <<writervars, pvvars>>

NextA1 ==
    \/ A1Start
    \/ A1Fold
    \/ A1FoldPanic
    \/ A1FoldWrap
    \/ A1Row

SpecA1 == InitA1 /\ [][NextA1]_vars

(***************************************************************************)
(* parse_value                                                             *)
(***************************************************************************)
\* the longest of the values made of every combination of ValueAlphabet
MaxValueLen == 3

ValueAlphabet == {"1", "-", ".", "t"}

ShortValues == UNION {[1..n -> ValueAlphabet] : n \in 0..MaxValueLen}

SampleValues ==
    {TrueChars,
     <<"F", "A", "L", "S", "E">>,
     <<"T", "r", "u", "e">>,
     <<"t", "r", "u", "e", "s">>,
     <<"4", "2">>,
     <<"-", "7">>,
     <<"+", "7">>,
     <<"0", "0", "7">>,
     <<"3", ".", "1", "4">>,
     <<" ", "4", "2">>,
     <<"h", "e", "l", "l", "o">>,
     <<"i", "n", "f">>,
     <<"N", "a", "N">>,
     I64MaxChars,
     <<"9", "2", "2", "3", "3", "7", "2", "0", "3", "6", "8", "5",
       "4", "7", "7", "5", "8", "0", "8">>,
     <<"-", "9", "2", "2", "3", "3", "7", "2", "0", "3", "6", "8", "5",
       "4", "7", "7", "5", "8", "0", "8">>,
     <<"2", "0", "2", "4", "-", "0", "1", "-", "1", "5">>,
     <<"2", "0", "2", "4", "-", "0", "2", "-", "2", "9">>,
     <<"2", "0", "2", "3", "-", "0", "2", "-", "2", "9">>,
     <<"2", "0", "2", "4", "-", "1", "3", "-", "4", "5">>}

\* the override values handed to parse_value
Values == ShortValues \cup SampleValues

InitValue ==
    /\ WriterIdle
    /\ A1Idle
    /\ pv_value \in Values
    /\ pv_pc = "start"
    /\ literal = NoLiteral

\* apply_override, line 181: let literal = parse_value(value)
CallParseValue ==
    /\ pv_pc = "start"
    /\ literal' = ParseValue(pv_value)
    /\ pv_pc' = "done"
    /\ UNCHANGED pv_value
    /\ UNCHANGED <<writervars, a1vars>>

NextValue == CallParseValue

SpecValue == InitValue /\ [][NextValue]_vars

(***************************************************************************)
(* apply_section_format on its own: every short section, scanned to the    *)
(* end; the loop runs on until its test fails                              *)
(***************************************************************************)
\* the longest of the sections made of every combination of ScanAlphabet
MaxScanLen == 3

ScanAlphabet == {BS, DQ, "_", "*", "[", "]", "0", DOT, "?", "x"}

ScanSections == UNION {[1..n -> ScanAlphabet] : n \in 0..MaxScanLen}

\* apply_section_format(num, section) is entered
InitScan ==
    /\ has_cell = TRUE
    /\ raw_value = <<"5">>
    /\ section \in ScanSections
    /\ format_code = section
    /\ pc = "scan"
    /\ num = ParseF64(raw_value)
    /\ sections = <<section>>
    /\ section_index = 0
    /\ i = ScanInit.i
    /\ prefix = ScanInit.prefix
    /\ suffix = ScanInit.suffix
    /\ number_format = ScanInit.number_format
    /\ in_number_section = ScanInit.in_number_section
    /\ has_number_placeholder = ScanInit.has_number_placeholder
    /\ formatted = Pending
    /\ value = NotYet
    /\ field = NotYet
    /\ A1Idle
    /\ PvIdle

NextScan ==
    \/ ScanEscape
    \/ ScanQuote
    \/ ScanPlaceholder
    \/ ScanSeparator
    \/ ScanQuestion
    \/ ScanSkip
    \/ ScanBracket
    \/ ScanPrefixChar
    \/ ScanSuffixChar
    \/ Finish

SpecScan == InitScan /\ [][NextScan]_vars

\* the function runs on: a step that can be taken is taken
FairSpecScan == SpecScan /\ WF_vars(NextScan)

(***************************************************************************)
(* Properties                                                              *)
(***************************************************************************)
\* the sign classes of the dispatch table
IsPositive(v) == v.cls = "fin" /\ ~v.neg /\ NonZero(v)
IsNegative(v) == v.cls = "fin" /\ v.neg /\ NonZero(v)
IsZero(v) == v.cls = "fin" /\ ~NonZero(v)

\* select_format_section has run for this cell
Selected == section_index # -1

\* C1: once a section is selected for a number, its index is the one the
\* dispatch table gives for the section count and the sign class: count 1,
\* always 0; count 2, positive and zero 0, negative 1; count 3 or 4,
\* positive 0, negative 1, zero 2; and the section used is that section.
C1_DispatchTable ==
    Selected =>
        /\ section = sections[section_index + 1]
        /\ Len(sections) = 1 => section_index = 0
        /\ Len(sections) = 2 /\ (IsPositive(num) \/ IsZero(num)) => section_index = 0
        /\ Len(sections) = 2 /\ IsNegative(num) => section_index = 1
        /\ Len(sections) \in {3, 4} /\ IsPositive(num) => section_index = 0
        /\ Len(sections) \in {3, 4} /\ IsNegative(num) => section_index = 1
        /\ Len(sections) \in {3, 4} /\ IsZero(num) => section_index = 2

\* a zero was dispatched to section 2 of a three-section code
C1_Witness ==
    /\ pc = "done"
    /\ Len(sections) = 3
    /\ IsZero(num)
    /\ section_index = 2

\* the number of '"' before position k (1-based) of s
QuotesBefore(s, k) == Cardinality({m \in 1..(k - 1) : s[m] = DQ})

\* the positions (1-based) of the ';' of s outside every double-quoted run
TopLevelSemis(s) ==
    {k \in 1..Len(s) : s[k] = SEMI /\ QuotesBefore(s, k) % 2 = 0}

RECURSIVE JoinSemi(_)
\* the sections joined by ';'
JoinSemi(ss) ==
    IF Len(ss) = 1 THEN ss[1] ELSE ss[1] \o <<SEMI>> \o JoinSemi(Tail(ss))

RECURSIVE CutPos(_, _)
\* the position in the joined string of the ';' that ends section j
CutPos(ss, j) == IF j = 0 THEN 0 ELSE CutPos(ss, j - 1) + Len(ss[j]) + 1

\* C2: the sections joined by ';' are the format code, and the places where
\* it was cut are exactly its ';' outside double-quoted runs (a run opens and
\* closes at a '"'), so a ';' inside a run starts no section.
C2_SplitAtTopLevelOnly ==
    sections # <<>> =>
        /\ JoinSemi(sections) = format_code
        /\ {CutPos(sections, j) : j \in 1..(Len(sections) - 1)}
               = TopLevelSemis(format_code)

\* a code with a ';' inside a quoted run and one outside has been split
C2_Witness ==
    /\ sections # <<>>
    /\ TopLevelSemis(format_code) # {}
    /\ \E k \in 1..Len(format_code) :
          format_code[k] = SEMI /\ QuotesBefore(format_code, k) % 2 = 1

\* C3: a section list the engine rendered a string from has 1 to 4
\* sections (a code with four or more top-level ';' is never rendered).
C3_AtMostFourSections ==
    formatted.tag = "Some" => Len(sections) \in 1..4

\* the magnitude of v with k decimals, ties rounded away from zero
HalfAwayChars(v, k) ==
    LET rest == SubSeq(PadFrac(v, k), k + 1, Len(PadFrac(v, k)))
    IN  FixedChars(v, k, rest # <<>> /\ rest[1] >= 5)

\* C4: a one-section format with k >= 1 placeholders after the decimal
\* point (and no grouping) renders a finite number as its magnitude rounded
\* to k decimals, ties away from zero, between the section's literals.
C4_RoundHalfAway ==
    /\ formatted.tag = "Some"
    /\ Len(sections) = 1
    /\ num.cls = "fin"
    /\ Contains(number_format, DOT)
    /\ ~Contains(number_format, COMMA)
    /\ DecimalPlaces(number_format) >= 1
    => formatted.s
         = prefix \o HalfAwayChars(num, DecimalPlaces(number_format)) \o suffix

\* the indices (0-based) of the characters of a section that are tokens of
\* their own: not escaped, not inside a quoted run or a bracketed directive,
\* not the operand of a fill or spacing directive
TopLevelChars(chars) ==
    LET RECURSIVE Go(_, _)
        Go(k, acc) ==
            IF k >= Len(chars) THEN acc
            ELSE LET c == At(chars, k)
                 IN  IF c = BS /\ k + 1 < Len(chars) THEN Go(k + 2, acc)
                     ELSE IF c = DQ THEN Go(FindFrom(chars, k + 1, DQ) + 1, acc)
                     ELSE IF c = "_" \/ c = "*" THEN Go(k + 2, acc)
                     ELSE IF c = "[" THEN Go(FindFrom(chars, k, "]") + 1, acc)
                     ELSE Go(k + 1, acc \cup {k})
    IN  Go(0, {})

\* a ',' stands in the digit run: between it and a digit placeholder to its
\* left there are only placeholders, decimal points and commas
MarkerInDigitRun(chars) ==
    \E p, q \in TopLevelChars(chars) :
        /\ q < p
        /\ At(chars, p) = COMMA
        /\ At(chars, q) \in {"0", "#"}
        /\ \A m \in q..p : /\ m \in TopLevelChars(chars)
                           /\ At(chars, m) \in {"0", "#", "?", DOT, COMMA}

\* the digits the engine rendered, without the literals around them
NumberPart ==
    SubSeq(formatted.s, Len(prefix) + 1, Len(formatted.s) - Len(suffix))

\* C5: the rendered number of a value of four or more integer digits is
\* grouped if and only if a thousands marker stands in the digit run.
C5_GroupingIffMarker ==
    /\ formatted.tag = "Some"
    /\ has_number_placeholder
    /\ num.cls = "fin"
    /\ Len(num.id) >= 4
    => (Contains(NumberPart, COMMA) <=> MarkerInDigitRun(section))

\* C6 as stated: for 0.00;(0.00);"-" the engine itself returns "5.00" for 5,
\* "(5.00)" for -5 and "-" for 0.
C6_EngineRendersEverySign ==
    pc = "done" /\ format_code = ThreeSectionCode =>
        /\ raw_value = <<"5">> => formatted = Some(<<"5", ".", "0", "0">>)
        /\ raw_value = <<"-", "5">>
              => formatted = Some(<<"(", "5", ".", "0", "0", ")">>)
        /\ raw_value = <<"0">> => formatted = Some(<<"-">>)

\* C6 as amended: for 0.00;(0.00);"-" a positive number selects section 0
\* (0.00) and a negative one section 1 ((0.00)), and for both the engine
\* returns no string and the cell is left to the library's formatting; a
\* zero is rendered by the engine itself as "-".
C6_ZeroRenderedOthersDeferred ==
    pc = "done" /\ format_code = ThreeSectionCode /\ num.cls = "fin" =>
        /\ IsPositive(num) =>
              /\ section = <<"0", ".", "0", "0">>
              /\ formatted = None
              /\ field = Library
        /\ IsNegative(num) =>
              /\ section = <<"(", "0", ".", "0", "0", ")">>
              /\ formatted = None
              /\ field = Library
        /\ IsZero(num) =>
              /\ formatted = Some(<<"-">>)
              /\ field = Str(<<"-">>)

\* the zero of a 0.00;(0.00);"-" cell came out as "-"
C6_Witness ==
    /\ pc = "done"
    /\ format_code = ThreeSectionCode
    /\ raw_value = <<"0">>
    /\ field = Str(<<"-">>)

\* C7: an iteration of the scan that stands on a '\' with a character after
\* it moves two characters on and adds that character, unchanged, to the
\* prefix when no digit placeholder has been seen and to the suffix
\* otherwise; the string returned is the prefix, the number, the suffix, so
\* \{###\} renders 123 as {123}.
C7_EscapeEmitsLiteralInPlace ==
    [][/\ (/\ pc = "scan"
           /\ i + 1 < Len(section)
           /\ At(section, i) = BS)
          => /\ i' = i + 2
             /\ number_format' = number_format
             /\ IF has_number_placeholder
                THEN /\ suffix' = Append(suffix, At(section, i + 1))
                     /\ prefix' = prefix
                ELSE /\ prefix' = Append(prefix, At(section, i + 1))
                     /\ suffix' = suffix
       /\ (pc = "scan" /\ pc' = "return" /\ has_number_placeholder)
          => formatted'
               = Some(prefix \o FormatNumber(num, number_format) \o suffix)
       /\ (pc = "scan" /\ pc' = "return" /\ format_code = BraceCode
             /\ raw_value = <<"1", "2", "3">>)
          => formatted' = Some(<<LBRACE, "1", "2", "3", RBRACE>>)
      ]_vars

\* 123 under \{###\} came out as {123}
C7_Witness ==
    /\ pc = "done"
    /\ format_code = BraceCode
    /\ raw_value = <<"1", "2", "3">>
    /\ field = Str(<<LBRACE, "1", "2", "3", RBRACE>>)

\* the raw string is a decimal numeral: an optional sign, then digits with
\* at most one '.' and at least one digit
IsDecimalNumeral(raw) ==
    LET body == IF raw # <<>> /\ Head(raw) \in {"-", "+"} THEN Tail(raw) ELSE raw
    IN  /\ \A k \in 1..Len(body) : IsDigit(body[k]) \/ body[k] = DOT
        /\ Cardinality({k \in 1..Len(body) : body[k] = DOT}) <= 1
        /\ \E k \in 1..Len(body) : IsDigit(body[k])

\* a text value: the cell is not empty and its content is not a number
IsText(raw) == raw # <<>> /\ ~IsDecimalNumeral(raw)

\* C8: a text value under the four-section code 0;0;0;"N/A" comes out as
\* N/A, the rendering of section 3.
C8_TextUsesSectionThree ==
    pc = "done" /\ format_code = FourSectionCode /\ IsText(raw_value)
        => field = Str(<<"N", "/", "A">>)

\* C9: a format code whose quoted run is opened and never closed (one '"'
\* and no escape) never yields a rendered string.
C9_UnbalancedQuoteRejected ==
    (/\ Cardinality({k \in 1..Len(format_code) : format_code[k] = DQ}) = 1
     /\ ~Contains(format_code, BS))
        => formatted.tag # "Some"

\* C10: for a text value and a format code of one section with a digit
\* placeholder the engine renders no string (it returns its recoverable no-result outcome),
\* and the caller emits the library's default formatting of the cell.
C10_TextFallsBack ==
    (/\ has_cell
     /\ IsText(raw_value)
     /\ ~Contains(format_code, SEMI)
     /\ \E k \in TopLevelChars(format_code) : At(format_code, k) \in {"0", "#"})
        => /\ formatted.tag # "Some"
           /\ pc = "done" => field = Library

\* the last character of the section is a '\' that escapes nothing: it is
\* not itself escaped, quoted, bracketed or the operand of '_' or '*'
EndsWithDanglingEscape(chars) ==
    /\ chars # <<>>
    /\ Len(chars) - 1 \in TopLevelChars(chars)
    /\ At(chars, Len(chars) - 1) = BS

\* C11: a section that ends with a '\' that escapes nothing is rejected: no
\* string is rendered from it (the '\' is neither emitted nor dropped).
C11_DanglingEscapeRejected ==
    EndsWithDanglingEscape(section) => formatted.tag # "Some"

\* a '[' that opens a directive (it is not escaped, quoted or the operand of
\* '_' or '*') has no ']' after it
UnclosedBracket(chars) ==
    LET RECURSIVE Go(_)
        Go(k) ==
            IF k >= Len(chars) THEN FALSE
            ELSE LET c == At(chars, k)
                 IN  IF c = BS /\ k + 1 < Len(chars) THEN Go(k + 2)
                     ELSE IF c = DQ THEN Go(FindFrom(chars, k + 1, DQ) + 1)
                     ELSE IF c = "_" \/ c = "*" THEN Go(k + 2)
                     ELSE IF c = "["
                     THEN IF \E j \in (k + 1)..(Len(chars) - 1) : At(chars, j) = "]"
                          THEN Go(FindFrom(chars, k, "]") + 1)
                          ELSE TRUE
                     ELSE Go(k + 1)
    IN  Go(0)

\* C12: a section with a '[' that no ']' closes is rejected: no string is
\* rendered from it.
C12_UnbalancedBracketRejected ==
    UnclosedBracket(section) => formatted.tag # "Some"

IsLetter(c) == IsUpper(c) \/ IsLower(c)

\* ref is n >= 1 letters followed by one or more decimal digits
LettersThenDigits(ref, n) ==
    /\ n \in 1..(Len(ref) - 1)
    /\ \A k \in 1..n : IsLetter(ref[k])
    /\ \A k \in (n + 1)..Len(ref) : IsDigit(ref[k])

RECURSIVE Bijective26(_)
\* the bijective base-26 value of a run of letters (A = 1 .. Z = 26), as
\* halves that are not cut to 32 bits
Bijective26(letters) ==
    IF letters = <<>> THEN U32(0)
    ELSE MulAdd(Bijective26(SubSeq(letters, 1, Len(letters) - 1)), 26,
                LetterValue(ToUppercase(letters)[Len(letters)]))

RECURSIVE DecimalValue(_)
\* the value of a run of decimal digits, as halves not cut to 32 bits
DecimalValue(digits) ==
    IF digits = <<>> THEN U32(0)
    ELSE MulAdd(DecimalValue(SubSeq(digits, 1, Len(digits) - 1)), 10,
                DigitVal(digits[Len(digits)]))

\* C13: parse_a1_notation maps a reference of one or more letters followed
\* by a decimal row number (here: one that fits 32 bits) to (col, row), col
\* the bijective base-26 value of the letters and row the number; a
\* reference without a digit, or with a character that is no digit after its
\* first digit, gives an error.
C13_EveryReferenceMaps ==
    a1_pc = "done" =>
        /\ \A n \in 1..Len(cell_arg) :
              (/\ LettersThenDigits(cell_arg, n)
               /\ FitsU32(DecimalValue(SubSeq(cell_arg, n + 1, Len(cell_arg)))))
              => /\ a1_result.tag = "Ok"
                 /\ a1_result.col = Bijective26(SubSeq(cell_arg, 1, n))
                 /\ a1_result.row
                      = DecimalValue(SubSeq(cell_arg, n + 1, Len(cell_arg)))
        /\ DigitPosition(Trim(cell_arg)) = -1 => a1_result.tag = "Err"
        /\ (\E j, k \in 1..Len(Trim(cell_arg)) :
               /\ j < k
               /\ IsDigit(Trim(cell_arg)[j])
               /\ ~IsDigit(Trim(cell_arg)[k]))
           => a1_result.tag = "Err"

\* the string without its leading sign, if it has one
Unsigned(v) == IF v # <<>> /\ Head(v) \in {"-", "+"} THEN Tail(v) ELSE v

\* the string is true or false in any mix of cases
IsBoolWord(v) == ToLowercase(v) \in {TrueChars, FalseChars}

\* the string is a decimal integer of 64 bits: an optional sign and digits,
\* from -9223372036854775808 to 9223372036854775807
IsI64Numeral(v) ==
    /\ Unsigned(v) # <<>>
    /\ \A k \in 1..Len(Unsigned(v)) : IsDigit(Unsigned(v)[k])
    /\ \/ ~ExceedsI64(DigitsOf(Unsigned(v)))
       \/ /\ Head(v) = "-"
          /\ DigitsToChars(DigitsOf(Unsigned(v)))
               = SubSeq(I64MaxChars, 1, Len(I64MaxChars) - 1) \o <<"8">>

\* the string is a float: a decimal numeral, or a signed or unsigned nan,
\* inf or infinity
IsFloatNumeral(v) ==
    IsDecimalNumeral(v) \/ Unsigned(v) \in NanNames \cup InfNames

\* the string is a day of the calendar written YYYY-MM-DD
IsIsoDate(v) ==
    /\ Len(v) = 10
    /\ v[5] = "-" /\ v[8] = "-"
    /\ \A k \in {1, 2, 3, 4, 6, 7, 9, 10} : IsDigit(v[k])
    /\ SmallNat(SubSeq(v, 6, 7)) \in 1..12
    /\ SmallNat(SubSeq(v, 9, 10))
         \in 1..DaysInMonth(SmallNat(SubSeq(v, 1, 4)), SmallNat(SubSeq(v, 6, 7)))

\* the string is three runs of digits with a '-' between them
DateShaped(v) ==
    \E p, q \in 1..Len(v) :
        /\ 1 < p /\ p + 1 < q /\ q < Len(v)
        /\ \A k \in 1..Len(v) : IF k \in {p, q} THEN v[k] = "-" ELSE IsDigit(v[k])

\* C14: parse_value classifies by the first rule that matches: true or
\* false in any case is a Boolean; otherwise a 64-bit integer is an Int;
\* otherwise a float is a Number; otherwise a date YYYY-MM-DD is a Date;
\* otherwise (for a string that is no date of any other spelling) the result
\* is Text holding the string unchanged.  So 42 is an Int and no Number.
C14_FirstMatchingRule ==
    pv_pc = "done" =>
        /\ IF IsBoolWord(pv_value)
           THEN /\ literal.kind = "Boolean"
                /\ literal.v = (ToLowercase(pv_value) = TrueChars)
           ELSE IF IsI64Numeral(pv_value)
           THEN /\ literal.kind = "Int"
                /\ literal.v.id = DigitsOf(Unsigned(pv_value))
                /\ literal.v.neg
                     = (Head(pv_value) = "-" /\ literal.v.id # <<0>>)
           ELSE IF IsFloatNumeral(pv_value)
           THEN /\ literal.kind = "Number"
                /\ literal.v.cls # "none"
                /\ literal.v.neg = (Head(pv_value) = "-")
           ELSE IF IsIsoDate(pv_value)
           THEN /\ literal.kind = "Date"
                /\ literal.v = <<SmallNat(SubSeq(pv_value, 1, 4)),
                                 SmallNat(SubSeq(pv_value, 6, 7)),
                                 SmallNat(SubSeq(pv_value, 9, 10))>>
           ELSE ~DateShaped(pv_value)
                    => literal.kind = "Text" /\ literal.v = pv_value
        /\ pv_value = <<"4", "2">> => literal = LiteralInt(FALSE, <<4, 2>>)
        /\ pv_value = <<"F", "A", "L", "S", "E">> => literal = LiteralBoolean(FALSE)
        /\ pv_value = <<"h", "e", "l", "l", "o">>
              => literal = LiteralText(<<"h", "e", "l", "l", "o">>)

\* 42, which is an integer and a float, came out as Int(42)
C14_Witness ==
    /\ pv_pc = "done"
    /\ pv_value = <<"4", "2">>
    /\ literal.kind = "Int"
    /\ literal.v.id = <<4, 2>>

\* the rendered number up to its decimal point, and after it
IntegerPart ==
    IF Contains(NumberPart, DOT)
    THEN SubSeq(NumberPart, 1, FirstPos(NumberPart, DOT) - 1)
    ELSE NumberPart
FractionPart ==
    IF Contains(NumberPart, DOT)
    THEN SubSeq(NumberPart, FirstPos(NumberPart, DOT) + 1, Len(NumberPart))
    ELSE <<>>

\* s without its ','
WithoutCommas(s) == SelectSeq(s, LAMBDA c : c # COMMA)

\* C15: with grouping on, the integer part of a rendered whole number is
\* the number's own digits with a ',' before every group of three counted
\* from the right (none in front), and the fraction has no ','.
C15_GroupsOfThreeDigitsKept ==
    (/\ formatted.tag = "Some"
     /\ has_number_placeholder
     /\ num.cls = "fin"
     /\ num.fd = <<>>
     /\ Contains(number_format, COMMA))
        => /\ WithoutCommas(IntegerPart) = DigitsToChars(num.id)
           /\ \A k \in 1..Len(IntegerPart) :
                 (IntegerPart[k] = COMMA) <=> ((Len(IntegerPart) - k + 1) % 4 = 0)
           /\ ~Contains(FractionPart, COMMA)

\* every quoted run of the section is closed and no '"' is escaped
QuotesBalanced(chars) ==
    /\ Cardinality({k \in 1..Len(chars) : chars[k] = DQ}) % 2 = 0
    /\ ~Contains2(chars, BS, DQ)

\* the section has none of the malformations of C9, C11 and C12
WellFormed(chars) ==
    /\ QuotesBalanced(chars)
    /\ ~EndsWithDanglingEscape(chars)
    /\ ~UnclosedBracket(chars)

\* The literal characters of a section in their order: the character after
\* a '\', the characters of a quoted run, and every other character that is
\* no placeholder (0 # ?), no decimal point, no bracketed directive and no
\* '_' or '*' with its operand.
SectionLiterals(chars) ==
    LET RECURSIVE Go(_, _)
        Go(k, acc) ==
            IF k >= Len(chars) THEN acc
            ELSE LET c == At(chars, k)
                 IN  IF c = BS /\ k + 1 < Len(chars)
                     THEN Go(k + 2, Append(acc, At(chars, k + 1)))
                     ELSE IF c = DQ
                     THEN Go(FindFrom(chars, k + 1, DQ) + 1,
                             acc \o Slice(chars, k + 1, FindFrom(chars, k + 1, DQ)))
                     ELSE IF c = "_" \/ c = "*" THEN Go(k + 2, acc)
                     ELSE IF c = "[" THEN Go(FindFrom(chars, k, "]") + 1, acc)
                     ELSE IF c \in {"0", "#", "?", DOT} THEN Go(k + 1, acc)
                     ELSE Go(k + 1, Append(acc, c))
    IN  Go(0, <<>>)

\* C16: the string rendered from a well-formed section without a digit
\* placeholder is the section's literal characters (escaped, quoted and
\* other literal characters) in their order, whatever the value.
C16_LiteralSectionConcatenates ==
    (/\ formatted.tag = "Some"
     /\ ~has_number_placeholder
     /\ WellFormed(section))
        => formatted.s = SectionLiterals(section)

\* C17: under a format with no decimal point (so no decimal places) and no
\* grouping a number is rendered as its magnitude rounded to the nearest
\* integer, a half rounded away from zero: 2.7 as 3.
C17_NoDecimalsRoundsToNearest ==
    (/\ formatted.tag = "Some"
     /\ has_number_placeholder
     /\ num.cls = "fin"
     /\ ~ExceedsI64(num.id)
     /\ ~Contains(number_format, DOT)
     /\ ~Contains(number_format, COMMA))
        => NumberPart = HalfAwayChars(num, 0)

\* the number of '0' placeholders of the section before its decimal point
ZerosBeforePoint(chars) ==
    Cardinality({k \in TopLevelChars(chars) :
                    /\ At(chars, k) = "0"
                    /\ \A j \in TopLevelChars(chars) : j < k => At(chars, j) # DOT})

\* every placeholder of the section after its decimal point is a '#'
OnlyHashAfterPoint(chars) ==
    /\ \E k \in TopLevelChars(chars) : At(chars, k) = DOT
    /\ \A k, j \in TopLevelChars(chars) :
          (At(chars, j) = DOT /\ j < k) => At(chars, k) # "0"

\* C18: a rendered number has at least as many integer digits as the
\* section has '0' placeholders before its decimal point (000 renders 5 as
\* 005), and under '#' placeholders after the point it does not end in an
\* insignificant zero (#.## renders 2.5 as 2.5).
C18_ZeroPadsHashSuppresses ==
    (/\ formatted.tag = "Some"
     /\ has_number_placeholder
     /\ num.cls = "fin"
     /\ WellFormed(section))
        => /\ Len(WithoutCommas(IntegerPart)) >= ZerosBeforePoint(section)
           /\ OnlyHashAfterPoint(section)
                 => (FractionPart = <<>> \/ FractionPart[Len(FractionPart)] # "0")

\* how many times c occurs in s
Count(s, c) == Cardinality({k \in 1..Len(s) : s[k] = c})

\* C19: a blank, '(' or ')' that stands unquoted and unescaped in a
\* well-formed section is literal text: the rendered string has at least as
\* many of each as the section has of them at top level, before the digits
\* as well as after them.
C19_BlanksAndParensKept ==
    (formatted.tag = "Some" /\ WellFormed(section))
        => \A c \in {SP, "(", ")"} :
              Count(formatted.s, c)
                >= Cardinality({k \in TopLevelChars(section) : At(section, k) = c})

\* no top-level ',' of the section touches a placeholder, a decimal point or
\* another ',': each stands next to literals or at an end of the section
CommasApart(chars) ==
    \A p \in TopLevelChars(chars) :
        At(chars, p) = COMMA
            => \A q \in {p - 1, p + 1} :
                  ~(/\ q \in TopLevelChars(chars)
                    /\ At(chars, q) \in {"0", "#", "?", DOT, COMMA})

\* C20: a ',' that is not contiguous with the digit placeholders is a
\* literal comma: it does not turn grouping on (the rendered number has no
\* ',') and it is in the output with the other literals.
C20_CommaElsewhereIsLiteral ==
    (/\ formatted.tag = "Some"
     /\ has_number_placeholder
     /\ num.cls = "fin"
     /\ WellFormed(section)
     /\ CommasApart(section))
        => /\ ~Contains(NumberPart, COMMA)
           /\ Count(prefix \o suffix, COMMA) = Count(SectionLiterals(section), COMMA)

\* C21: a number for which a section has been selected is finite, so it is
\* exactly one of positive, negative and zero: no NaN and no infinity
\* reaches select_format_section or the rendering after it.
C21_OnlyFiniteReachesSelection ==
    Selected =>
        /\ num.cls = "fin"
        /\ Cardinality({c \in {"positive", "negative", "zero"} :
                           \/ c = "positive" /\ IsPositive(num)
                           \/ c = "negative" /\ IsNegative(num)
                           \/ c = "zero" /\ IsZero(num)}) = 1

\* C22: every iteration of the scan reads only indices below the length of
\* the section and leaves the index greater than it found it, and the scan
\* of every section comes to its end: also of one that ends in a '\', '_'
\* or '*' or in a '"' or '[' that nothing closes.
C22_ScanAdvancesAndEnds ==
    /\ [][(pc = "scan" /\ i < Len(section))
             => /\ i' > i
                /\ \A j \in ReadIndices(ScanState, section) :
                      0 <= j /\ j < Len(section)]_vars
    /\ (pc = "scan") ~> (pc = "return")

\* the scan of a section that ends in '_' or '*', or in a '[' that nothing
\* closes, is over, with the index past the length of the section
C22_Witness ==
    /\ pc = "return"
    /\ section # <<>>
    /\ At(section, Len(section) - 1) \in {"_", "*", "["}
    /\ i > Len(section)

\* C23: the splitter and the scan agree on what is quoted: the scan of a
\* section never stands on a ';' as a character of its own, outside every
\* quoted run and not escaped, because the splitter has cut the format code
\* at every such ';' (also at one that follows an escaped '"').
C23_SplitterAndScanAgree ==
    (pc = "scan" /\ i < Len(section)) => At(section, i) # SEMI

=============================================================================
